---- MODULE Spec2Model ----
(***************************************************************************)
(* ROS3D.OccupancyGrid (src/src/navigation/OccupancyGrid.js): the raster   *)
(* cache of an occupancy grid and its full / partial update operations.    *)
(*                                                                         *)
(* JavaScript values are represented as follows.                           *)
(*   - a reference that may be null is a sequence of length 0 (null) or 1  *)
(*     (the referenced value): Null == <<>>, Some(v) == <<v>>;             *)
(*   - a Number that may be fractional is an exact fraction [n, d];        *)
(*   - an object whose identity matters (geometry, texture, Uint8Array)    *)
(*     carries an id, taken from the allocation counter nAlloc;            *)
(*   - an exception leaves the state as it is at the throwing statement    *)
(*     and is recorded in lastCall.outcome.                                *)
(***************************************************************************)
EXTENDS Integers, Sequences, FiniteSets, TLC

(***************************************************************************)
(* Bounds of the model.                                                    *)
(***************************************************************************)
MaxWidth == 2
MaxHeight == 2
MaxCalls == 2
MaxPoseWidth == 1
MaxPoseCalls == 1
MaxNavCalls == 3
MaxGoals == 2

Null == <<>>
Some(v) == <<v>>
Val(o) == o[1]

(* exact fractions for JavaScript Numbers *)
Num(n) == [n |-> n, d |-> 1]
Frac(n, d) == [n |-> n, d |-> d]
RatMul(a, b) == [n |-> a.n * b.n, d |-> a.d * b.d]
RatAdd(a, b) == [n |-> a.n * b.d + b.n * a.d, d |-> a.d * b.d]
RatEq(a, b) == a.n * b.d = b.n * a.d
RatLess(a, b) == a.n * b.d < b.n * a.d

(* ToUint8 of a non-negative Number, as applied by Uint8Array.prototype.set:
   the fraction is truncated and the result taken modulo 2^8 *)
ToUint8(a) == (a.n \div a.d) % 256

(***************************************************************************)
(* The colour transform and the colour table.                              *)
(***************************************************************************)
(* variant: the branch of the values 101..127 is missing *)
costmapPalleteTransform_NoIllegalPositive(value) ==
    IF value = 0 THEN <<Num(0), Num(0), Num(0), Num(0)>>
    ELSE IF 1 <= value /\ value <= 98
        THEN <<Num(value), Num(0), Num(255 - value), Num(255)>>
    ELSE IF value = 99 THEN <<Num(0), Num(255), Num(255), Num(255)>>
    ELSE IF value = 100 THEN <<Num(255), Num(0), Num(255), Num(255)>>
    ELSE IF -128 <= value /\ value <= -2
        THEN <<Num(255), Frac(255 * (value + 128), 126), Num(0), Num(255)>>
    ELSE IF value = -1 THEN <<Num(112), Num(137), Num(134), Num(255)>>
    ELSE <<Num(0), Num(0), Num(0), Num(0)>>

costmapPalleteTransform(value) ==
    IF value = 0 THEN <<Num(0), Num(0), Num(0), Num(0)>>
    ELSE IF 1 <= value /\ value <= 98
        THEN <<Num(value), Num(0), Num(255 - value), Num(255)>>
    ELSE IF value = 99 THEN <<Num(0), Num(255), Num(255), Num(255)>>
    ELSE IF value = 100 THEN <<Num(255), Num(0), Num(255), Num(255)>>
    ELSE IF 100 < value /\ value <= 127
        THEN <<Num(0), Num(255), Num(0), Num(255)>>
    ELSE IF -128 <= value /\ value <= -2
        THEN <<Num(255), Frac(255 * (value + 128), 126), Num(0), Num(255)>>
    ELSE IF value = -1 THEN <<Num(112), Num(137), Num(134), Num(255)>>
    ELSE <<Num(0), Num(0), Num(0), Num(0)>>

(* variant: the loop runs through 127 *)
buildColorHashMap_Through127(op) ==
    [i \in -128..127 |->
        [costmapPalleteTransform(i) EXCEPT ![4] = RatMul(@, op)]]

(* variant: the alpha is multiplied by the opacity a second time *)
buildColorHashMap_AlphaTwice(op) ==
    [i \in -128..126 |->
        [costmapPalleteTransform(i) EXCEPT ![4] = RatMul(RatMul(@, op), op)]]

(* for (var i=-128; i < 127; i++) m1.set(i, transform(i) with alpha * opacity) *)
buildColorHashMap(op) ==
    [i \in -128..126 |->
        [costmapPalleteTransform(i) EXCEPT ![4] = RatMul(@, op)]]

(* var opacity = options.opacity || 0.7; the option is Null when not given *)
OpacityOf(option) ==
    IF option = Null \/ Val(option).n = 0 THEN Frac(7, 10) ELSE Val(option)

(***************************************************************************)
(* The state of one OccupancyGrid.                                         *)
(***************************************************************************)
VARIABLES
    opacity,          \* this.opacity
    colorMap,         \* this.colorMap: value -> RGBA Numbers
    mapInternalData,  \* this.mapInternalData: Null or Some(cells)
    mapImageData,     \* this.mapImageData: Null or Some([id, bytes])
    mapOrigin,        \* this.mapOrigin: Null or Some(pose)
    mapWidth,         \* this.mapWidth: Null or Some(n)
    mapHeight,        \* this.mapHeight: Null or Some(n)
    texture,          \* this.texture: [id, image, width, height, needsUpdate]
    materialMap,      \* this.material.map: id of a texture
    geometry,         \* this.geometry: [id, width, height]
    position,         \* this.position: [x, y, z]
    scale,            \* this.scale: [x, y]
    quaternion,       \* this.quaternion
    plane,            \* this.plane: [normal, point]
    disposed,         \* ids of the textures on which dispose() was called
    created,          \* ids of the textures made by new THREE.DataTexture
    optionsOpacity,   \* options.opacity as given to the constructor
    paletteValue,     \* the argument of a call of costmapPalleteTransform
    paletteRgba,      \* what that call returned: Null or Some(RGBA Numbers)
    client,           \* the OccupancyGridClient that shows the grid
    navigator,        \* a ROS3D.Navigator: its fields
    navigatorMW,      \* a ROS3D.Navigator_MW: its fields and its children
    navCall,          \* the last call made on a navigator and what it did
    nAlloc,           \* number of rebuilds so far; a rebuild's objects get this id
    nCalls,           \* number of calls and messages handled so far
    lastCall,         \* the last call made on the grid and how it ended
    prevCall          \* what the call before the last one was

vars == <<opacity, colorMap, mapInternalData, mapImageData, mapOrigin,
          mapWidth, mapHeight, texture, materialMap, geometry, position,
          scale, quaternion, plane, disposed, created, optionsOpacity,
          paletteValue, paletteRgba, client, navigator, navigatorMW, navCall,
          nAlloc, nCalls, lastCall, prevCall>>

gridVars == <<mapInternalData, mapImageData, mapOrigin, mapWidth, mapHeight,
              texture, materialMap, geometry, position, scale, quaternion,
              plane, disposed, created>>

(* what no method of the grid assigns after the constructor has set it, and
   the palette call that is made outside the grid's methods *)
navVars == <<navigator, navigatorMW, navCall>>

fixedVars ==
    <<opacity, colorMap, optionsOpacity, paletteValue, paletteRgba, client,
      navVars>>

(***************************************************************************)
(* buildImageData(imageData, data, width, height, x, y).                   *)
(* The double loop visits the width*height cells in row-major order; k is  *)
(* the number of cells already written.  colorMap.get() of a value without *)
(* an entry, or of data[mapI] past the end of data, is undefined, and      *)
(* imageData.set(undefined, i) throws, as does a write past the end of     *)
(* imageData.  The result is the bytes written so far and whether the      *)
(* loop threw.                                                             *)
(***************************************************************************)
SetColor(bytes, color, i) ==
    [j \in 1..Len(bytes) |->
        IF i < j /\ j <= i + 4 THEN ToUint8(color[j - i]) ELSE bytes[j]]

CellDataIndex(col, row, width, x, y) == col + ((row - y) * width)

CellImageIndex(col, row, width) == (col + (row * width)) * 4

RECURSIVE BuildFrom(_, _, _, _, _, _, _)
BuildFrom(k, bytes, data, width, height, x, y) ==
    IF k >= width * height THEN [bytes |-> bytes, threw |-> FALSE]
    ELSE LET row == y + (k \div width)
             col == x + (k % width)
             mapI == CellDataIndex(col, row, width, x, y)
             color == IF /\ 0 <= mapI /\ mapI < Len(data)
                         /\ data[mapI + 1] \in DOMAIN colorMap
                      THEN Some(colorMap[data[mapI + 1]])
                      ELSE Null
             i == CellImageIndex(col, row, width)
         IN  IF color = Null \/ i < 0 \/ i + 4 > Len(bytes)
             THEN [bytes |-> bytes, threw |-> TRUE]
             ELSE BuildFrom(k + 1, SetColor(bytes, Val(color), i),
                            data, width, height, x, y)

buildImageData(bytes, data, width, height, x, y) ==
    BuildFrom(0, bytes, data, width, height, x, y)

(* variant: the buffer is allocated one pixel too long *)
NewUint8Array_OnePixelMore(n) == [j \in 1..(n + 4) |-> 0]

(* new Uint8Array(n): n zero bytes *)
NewUint8Array(n) == [j \in 1..n |-> 0]

(***************************************************************************)
(* isSameMapData and isNewGridSameAsCur.                                   *)
(***************************************************************************)
(* variant: the lengths are not compared first *)
isSameMapData_NoLengthCheck(data) ==
    IF mapInternalData = Null
    THEN FALSE
    ELSE \A i \in 1..Len(Val(mapInternalData)) :
            i <= Len(data) /\ Val(mapInternalData)[i] = data[i]

isSameMapData(data) ==
    IF mapInternalData = Null \/ Len(Val(mapInternalData)) # Len(data)
    THEN FALSE
    ELSE \A i \in 1..Len(data) : Val(mapInternalData)[i] = data[i]

(* variant: the orientation is compared as well *)
isNewGridSameAsCur_WithOrientation(origin, width, height) ==
    /\ mapOrigin # Null
    /\ Val(mapOrigin).position.x = origin.position.x
    /\ Val(mapOrigin).position.y = origin.position.y
    /\ Val(mapOrigin).position.z = origin.position.z
    /\ Val(mapOrigin).orientation = origin.orientation
    /\ mapWidth = Some(width)
    /\ mapHeight = Some(height)

isNewGridSameAsCur(origin, width, height) ==
    /\ mapOrigin # Null
    /\ Val(mapOrigin).position.x = origin.position.x
    /\ Val(mapOrigin).position.y = origin.position.y
    /\ Val(mapOrigin).position.z = origin.position.z
    /\ mapWidth = Some(width)
    /\ mapHeight = Some(height)

(***************************************************************************)
(* The constructor up to its call of updateMap: the dummy geometry, pixel  *)
(* buffer and texture have id 0 and the snapshot fields are null.          *)
(***************************************************************************)
Identity == [x |-> 0, y |-> 0, z |-> 0, w |-> 1]

Blank(option) ==
    /\ opacity = OpacityOf(option)
    /\ colorMap = buildColorHashMap(OpacityOf(option))
    /\ mapInternalData = Null
    /\ mapImageData = Null
    /\ mapOrigin = Null
    /\ mapWidth = Null
    /\ mapHeight = Null
    /\ texture = [id |-> 0, image |-> 0, width |-> 1, height |-> 1,
                  needsUpdate |-> FALSE]
    /\ materialMap = 0
    /\ geometry = [id |-> 0, width |-> 1, height |-> 1]
    /\ position = [x |-> Num(0), y |-> Num(0), z |-> Num(0)]
    /\ scale = [x |-> Num(1), y |-> Num(1)]
    /\ quaternion = Identity
    /\ plane = [normal |-> Identity, point |-> [x |-> Num(0), y |-> Num(0), z |-> Num(0)]]
    /\ disposed = {}
    /\ created = {0}
    /\ optionsOpacity = option
    /\ nAlloc = 0
    /\ nCalls = 0
    /\ lastCall = [op |-> "new", branch |-> "none", outcome |-> "ok",
                   message |-> Null, repeated |-> FALSE]
    /\ prevCall = [op |-> "new", branch |-> "none", outcome |-> "ok", cells |-> 0]

(* what is kept of a call when the next one is made: its kind, how it ended
   and the number of cells of its message *)
Digest(call) ==
    [op |-> call.op, branch |-> call.branch, outcome |-> call.outcome,
     cells |-> IF call.message = Null THEN 0 ELSE Len(Val(call.message).data)]

(* the object exists for its callers once the constructor has returned *)
Constructed ==
    /\ lastCall.op # "new"
    /\ ~(lastCall.op = "constructor" /\ lastCall.outcome = "threw")

(***************************************************************************)
(* updateMap(message), lines 116-184.                                      *)
(***************************************************************************)
(* variant: the branch is chosen on the geometry alone *)
TakesInPlaceBranch_GeometryOnly(message) ==
    isNewGridSameAsCur(message.info.origin, message.info.width,
                       message.info.height)

(* variant: the data comparison is not negated *)
TakesInPlaceBranch_SameData(message) ==
    /\ isNewGridSameAsCur(message.info.origin, message.info.width,
                          message.info.height)
    /\ isSameMapData(message.data)

TakesInPlaceBranch(message) ==
    /\ isNewGridSameAsCur(message.info.origin, message.info.width,
                          message.info.height)
    /\ ~isSameMapData(message.data)

(* lines 126-133; mapImageData.set on a null mapImageData throws *)
UpdateInPlace(message, caller) ==
    LET r == IF mapImageData = Null
             THEN [bytes |-> <<>>, threw |-> TRUE]
             ELSE buildImageData(Val(mapImageData).bytes, message.data,
                                 Val(mapWidth), Val(mapHeight), 0, 0)
    IN  /\ mapInternalData' = Some(message.data)
        /\ mapImageData' = IF mapImageData = Null THEN Null
                           ELSE Some([Val(mapImageData) EXCEPT !.bytes = r.bytes])
        /\ texture' = IF r.threw THEN texture
                      ELSE [texture EXCEPT !.needsUpdate = TRUE]
        /\ lastCall' = [op |-> caller, branch |-> "inplace",
                        outcome |-> IF r.threw THEN "threw" ELSE "ok",
                        message |-> Some(message),
                        repeated |-> lastCall.message = Some(message)]
        /\ UNCHANGED <<mapOrigin, mapWidth, mapHeight, materialMap, geometry,
                       position, scale, quaternion, plane, disposed, created,
                       nAlloc>>

(* variant: the texture in use is not disposed *)
TextureDisposed_Skipped == disposed

(* this.texture.dispose(), lines 145 and 295 *)
TextureDisposed == disposed \cup {texture.id}

(* variant: the offset to the grid's centre is not halved *)
RebuildPosition_NotHalved(info) ==
    [x |-> RatAdd(RatMul(Num(info.width), info.resolution),
                  Num(info.origin.position.x)),
     y |-> RatAdd(RatMul(Num(info.height), info.resolution),
                  Num(info.origin.position.y)),
     z |-> Num(info.origin.position.z)]

(* this.position, lines 155-157 *)
RebuildPosition(info) ==
    [x |-> RatAdd(RatMul(RatMul(Num(info.width), info.resolution), Frac(1, 2)),
                  Num(info.origin.position.x)),
     y |-> RatAdd(RatMul(RatMul(Num(info.height), info.resolution), Frac(1, 2)),
                  Num(info.origin.position.y)),
     z |-> Num(info.origin.position.z)]

(* lines 137-182; the objects allocated by this call get the id nAlloc + 1 *)
UpdateRebuild(message, caller) ==
    LET info == message.info
        origin == info.origin
        width == info.width
        height == info.height
        id == nAlloc + 1
        newPosition == RebuildPosition(info)
        r == buildImageData(NewUint8Array(width * height * 4), message.data,
                            width, height, 0, 0)
    IN  /\ nAlloc' = id
        /\ mapOrigin' = Some(origin)
        /\ mapWidth' = Some(width)
        /\ mapHeight' = Some(height)
        /\ disposed' = TextureDisposed
        /\ geometry' = [id |-> id, width |-> width, height |-> height]
        /\ quaternion' = origin.orientation
        /\ position' = newPosition
        /\ scale' = [x |-> info.resolution, y |-> info.resolution]
        /\ mapInternalData' = Some(message.data)
        /\ lastCall' = [op |-> caller, branch |-> "rebuild",
                        outcome |-> IF r.threw THEN "threw" ELSE "ok",
                        message |-> Some(message),
                        repeated |-> lastCall.message = Some(message)]
        /\ IF r.threw
           THEN UNCHANGED <<mapImageData, texture, materialMap, plane, created>>
           ELSE /\ mapImageData' = Some([id |-> id, bytes |-> r.bytes])
                /\ created' = created \cup {id}
                /\ texture' = [id |-> id, image |-> id, width |-> width,
                               height |-> height, needsUpdate |-> TRUE]
                /\ plane' = [normal |-> origin.orientation, point |-> newPosition]
                /\ materialMap' = id

updateMapFrom(message, caller) ==
    IF TakesInPlaceBranch(message)
    THEN UpdateInPlace(message, caller)
    ELSE UpdateRebuild(message, caller)

(* line 108: the constructor's own call *)
Construct(message) ==
    /\ lastCall.op = "new"
    /\ updateMapFrom(message, "constructor")
    /\ prevCall' = Digest(lastCall)
    /\ UNCHANGED <<fixedVars, nCalls>>

updateMap(message) ==
    /\ Constructed
    /\ nCalls < MaxCalls
    /\ nCalls' = nCalls + 1
    /\ updateMapFrom(message, "updateMap")
    /\ prevCall' = Digest(lastCall)
    /\ UNCHANGED fixedVars

(***************************************************************************)
(* updatePartialMap(message), lines 187-210.                               *)
(***************************************************************************)
(* a null operand of < converts to 0 *)
ToNumber(o) == IF o = Null THEN 0 ELSE Val(o)

(* variant: the rectangle's height is not compared with the grid's *)
PartialOutOfBounds_NoHeight(message) ==
    \/ message.x < 0
    \/ message.y < 0
    \/ ToNumber(mapWidth) < message.x + message.width

PartialOutOfBounds(message) ==
    \/ message.x < 0
    \/ message.y < 0
    \/ ToNumber(mapWidth) < message.x + message.width
    \/ ToNumber(mapHeight) < message.y + message.height

(* variant: neither check is made *)
PartialRejected_Never(message) == FALSE

PartialRejected(message) ==
    PartialOutOfBounds(message) \/ mapImageData = Null

(* variant: the patch is written into the stored cells of the grid *)
PartialInternalData_Merged(message) ==
    IF mapInternalData = Null
       \/ Len(Val(mapInternalData)) # ToNumber(mapWidth) * ToNumber(mapHeight)
    THEN message.data
    ELSE [i \in 1..Len(Val(mapInternalData)) |->
            LET c == (i - 1) % Val(mapWidth)
                r == (i - 1) \div Val(mapWidth)
            IN  IF /\ message.x <= c /\ c < message.x + message.width
                   /\ message.y <= r /\ r < message.y + message.height
                THEN message.data[(c - message.x)
                                  + (r - message.y) * message.width + 1]
                ELSE Val(mapInternalData)[i]]

(* the raw cells stored by an accepted partial update, line 206 *)
PartialInternalData(message) == message.data

updatePartialMap(message) ==
    /\ Constructed
    /\ nCalls < MaxCalls
    /\ nCalls' = nCalls + 1
    /\ prevCall' = Digest(lastCall)
    /\ UNCHANGED <<fixedVars, nAlloc>>
    /\ IF PartialRejected(message)
       THEN /\ lastCall' = [op |-> "updatePartialMap", branch |-> "none",
                            outcome |-> "rejected", message |-> Some(message),
                            repeated |-> lastCall.message = Some(message)]
            /\ UNCHANGED gridVars
       ELSE LET r == buildImageData(Val(mapImageData).bytes, message.data,
                                    message.width, message.height,
                                    message.x, message.y)
            IN  /\ mapImageData' =
                       Some([Val(mapImageData) EXCEPT !.bytes = r.bytes])
                /\ mapInternalData' = IF r.threw THEN mapInternalData
                                      ELSE Some(PartialInternalData(message))
                /\ texture' = IF r.threw THEN texture
                              ELSE [texture EXCEPT !.needsUpdate = TRUE]
                /\ lastCall' = [op |-> "updatePartialMap", branch |-> "patch",
                                outcome |-> IF r.threw THEN "threw" ELSE "ok",
                                message |-> Some(message),
                                repeated |-> lastCall.message = Some(message)]
                /\ UNCHANGED <<mapOrigin, mapWidth, mapHeight, materialMap,
                               geometry, position, scale, quaternion, plane,
                               disposed, created>>

(***************************************************************************)
(* The render loop, Viewer.prototype.draw: renderer.render uploads a       *)
(* texture whose needsUpdate was set and thereby consumes the flag.        *)
(***************************************************************************)
draw ==
    /\ Constructed
    /\ nCalls < MaxCalls
    /\ nCalls' = nCalls + 1
    /\ texture.needsUpdate
    /\ prevCall' = Digest(lastCall)
    /\ texture' = [texture EXCEPT !.needsUpdate = FALSE]
    /\ lastCall' = [op |-> "draw", branch |-> "none", outcome |-> "ok",
                    message |-> Null, repeated |-> FALSE]
    /\ UNCHANGED <<fixedVars, mapInternalData, mapImageData, mapOrigin,
                   mapWidth, mapHeight, materialMap, geometry, position, scale,
                   quaternion, plane, disposed, created, nAlloc>>

(***************************************************************************)
(* dispose(), lines 293-296: the material and the texture in use are       *)
(* disposed; the object stays usable.                                      *)
(***************************************************************************)
dispose ==
    /\ Constructed
    /\ nCalls < MaxCalls
    /\ nCalls' = nCalls + 1
    /\ prevCall' = Digest(lastCall)
    /\ disposed' = TextureDisposed
    /\ lastCall' = [op |-> "dispose", branch |-> "none", outcome |-> "ok",
                    message |-> Null, repeated |-> FALSE]
    /\ UNCHANGED <<fixedVars, mapInternalData, mapImageData, mapOrigin,
                   mapWidth, mapHeight, texture, materialMap, geometry,
                   position, scale, quaternion, plane, created, nAlloc>>

(***************************************************************************)
(* OccupancyGridClient.prototype.processMessage_mapPartialUpdate           *)
(* (src/unnamed/part_001, lines 205-210): the patch is handed to the       *)
(* current grid; while the client has no grid (none was constructed yet,   *)
(* or the constructor threw) the patch is dropped.                         *)
(***************************************************************************)
currentGrid == IF Constructed THEN Some("grid") ELSE Null

processMessage_mapPartialUpdate(message) ==
    IF currentGrid # Null
    THEN updatePartialMap(message)
    ELSE /\ nCalls < MaxCalls
         /\ nCalls' = nCalls + 1
         /\ UNCHANGED <<fixedVars, gridVars, nAlloc, lastCall, prevCall>>

(***************************************************************************)
(* The OccupancyGridClient constructor (src/unnamed/part_001, lines        *)
(* 26-47) and its subscribe() (lines 65-96): the full-map topic is always  *)
(* subscribed, the '<topic>_updates' topic only when continuous is set.    *)
(* A subscribed ROSLIB.Topic has a subscribeId; unsubscribe() makes it     *)
(* null.  changes counts the 'change' events emitted so far and grids the  *)
(* calls of new ROS3D.OccupancyGrid made so far.                           *)
(***************************************************************************)
OccupancyGridClient(continuous) ==
    [continuous |-> continuous,
     subscribeId |-> Some(1),
     updatesSubscribeId |-> IF continuous THEN Some(2) ELSE Null,
     changes |-> 0,
     grids |-> 0]

(***************************************************************************)
(* The navigators after their constructors (Navigator.js lines 26-59,      *)
(* Navigator_MW.js lines 27-279).  A marker is the record of what it was   *)
(* built from; the markers of a Navigator_MW are its children and have     *)
(* ids.  navCall is the last handler or method run on a navigator: whether *)
(* it called event3D.stopPropagation(), the poses it sent as goals, the    *)
(* events it emitted on rootObject and whether it threw; event is the      *)
(* mouse event of a handler call.                                          *)
(***************************************************************************)
Navigator(navigatorInitState) ==
    [isActive |-> navigatorInitState,
     mouseDownPos |-> Null,
     mouseDown |-> FALSE,
     currentGoal |-> Null,
     goalMarker |-> Null]

Navigator_MW(navInitState) ==
    [isActive |-> navInitState,
     mouseDownPos |-> Null,
     mouseDown |-> FALSE,
     latestMarker |-> Null,
     nodeMarkerList |-> <<>>,
     goalList |-> <<>>,
     children |-> {},
     markers |-> 0]

NoCall ==
    [target |-> "none", op |-> "none", event |-> Null, stopped |-> FALSE,
     exited |-> FALSE, sent |-> <<>>, emitted |-> <<>>, threw |-> FALSE]

(* the navigators of a state in which no navigator is looked at *)
NoNavigation ==
    /\ navigator = Navigator(FALSE)
    /\ navigatorMW = Navigator_MW(FALSE)
    /\ navCall = NoCall

(***************************************************************************)
(* Inputs.                                                                 *)
(***************************************************************************)
(* cell values: free, lethal, and the signed byte without a table entry *)
Values == {0, 100, 127}

(* cell arrays of length n: all free, one lethal cell after free ones, and
   one cell whose value has no table entry after free ones *)
Cells(n) ==
    {[i \in 1..n |-> IF i = n THEN last ELSE 0] : last \in Values}

(* patch arrays: as above, but not all free *)
PatchCells(n) == Cells(n) \ {[i \in 1..n |-> 0]}

Positions == {[x |-> 0, y |-> 0, z |-> 0], [x |-> 1, y |-> 0, z |-> 0]}

Resolutions == {Frac(1, 20)}

Orientations == {Identity}

OpacityOptions == {Null, Some(Num(1))}

GridMessages ==
    UNION {
        {[info |-> [origin |-> [position |-> p, orientation |-> q],
                    width |-> w, height |-> h, resolution |-> res],
          data |-> d] :
            p \in Positions, q \in Orientations, res \in Resolutions,
            d \in Cells(w * h)} :
        w \in 1..MaxWidth, h \in 1..MaxHeight}

(* patch rectangles: every rectangle at the grid's first cell, one cell at
   each neighbouring offset inside and outside the grid, and the rows that
   start at the second row *)
Rectangles ==
    {[x |-> 0, y |-> 0, width |-> w, height |-> h] :
        w \in 1..MaxWidth, h \in 1..MaxHeight}
    \cup {[x |-> o[1], y |-> o[2], width |-> 1, height |-> 1] :
        o \in {<<1, 0>>, <<0, 1>>, <<1, 1>>, <<-1, 0>>, <<0, -1>>}}
    \cup {[x |-> 0, y |-> 1, width |-> w, height |-> 1] : w \in 2..MaxWidth}

PartialMessages ==
    UNION {
        {[x |-> r.x, y |-> r.y, width |-> r.width, height |-> r.height,
          data |-> d] : d \in PatchCells(r.width * r.height)} :
        r \in Rectangles}

(***************************************************************************)
(* The specification.                                                      *)
(***************************************************************************)
Init ==
    /\ \E option \in OpacityOptions : Blank(option)
    /\ paletteValue = 0
    /\ paletteRgba = Null
    /\ client = OccupancyGridClient(TRUE)
    /\ NoNavigation

Next ==
    \/ \E message \in GridMessages : Construct(message)
    \/ \E message \in GridMessages : updateMap(message)
    \/ \E message \in PartialMessages : processMessage_mapPartialUpdate(message)
    \/ draw
    \/ dispose

Spec == Init /\ [][Next]_vars

(***************************************************************************)
(* The constructor and the colour transform on their own: every opacity    *)
(* option, and one call of costmapPalleteTransform on every signed byte.   *)
(***************************************************************************)
PaletteValues == -128..127

PaletteOpacityOptions ==
    {Null, Some(Num(0)), Some(Frac(1, 2)), Some(Num(1))}

transform ==
    /\ paletteRgba = Null
    /\ paletteRgba' = Some(costmapPalleteTransform(paletteValue))
    /\ UNCHANGED <<opacity, colorMap, optionsOpacity, paletteValue, client,
                   navVars, gridVars, nAlloc, nCalls, lastCall, prevCall>>

InitPalette ==
    /\ \E option \in PaletteOpacityOptions : Blank(option)
    /\ paletteValue \in PaletteValues
    /\ paletteRgba = Null
    /\ client = OccupancyGridClient(TRUE)
    /\ NoNavigation

NextPalette == transform

SpecPalette == InitPalette /\ [][NextPalette]_vars

(***************************************************************************)
(* Full updates alone, over grids of one row whose origin position,        *)
(* origin orientation and resolution vary.                                 *)
(***************************************************************************)
HalfTurnAboutZ == [x |-> 0, y |-> 0, z |-> 1, w |-> 0]

PosePositions ==
    {[x |-> 0, y |-> 0, z |-> 0], [x |-> 1, y |-> 0, z |-> 0],
     [x |-> 0, y |-> 1, z |-> 0], [x |-> 0, y |-> 0, z |-> 1]}

PoseOrientations == {Identity, HalfTurnAboutZ}

PoseResolutions == {Frac(1, 20), Frac(1, 10)}

PoseCells(n) == {d \in Cells(n) : \A i \in 1..n : d[i] # 127}

PoseMessages ==
    UNION {
        {[info |-> [origin |-> [position |-> p, orientation |-> q],
                    width |-> w, height |-> 1, resolution |-> res],
          data |-> d] :
            p \in PosePositions, q \in PoseOrientations,
            res \in PoseResolutions, d \in PoseCells(w)} :
        w \in 1..MaxPoseWidth}

updateMapPose(message) ==
    /\ nCalls < MaxPoseCalls
    /\ updateMap(message)

NextPose ==
    \/ \E message \in PoseMessages : Construct(message)
    \/ \E message \in PoseMessages : updateMapPose(message)

SpecPose == Init /\ [][NextPose]_vars

(***************************************************************************)
(* The caller keeps the array it passed as message.data.  updateMap stores *)
(* that array itself in this.mapInternalData (lines 131 and 162 assign the *)
(* reference, no copy is made), so an element the caller writes afterwards *)
(* is written in the grid's raw cells as well.  mutateData(i, v) is the    *)
(* caller's data[i] = v on the array of the last full update; the message  *)
(* the caller holds now carries the changed array.                         *)
(***************************************************************************)
mutateData(i, v) ==
    /\ Constructed
    /\ nCalls < MaxCalls
    /\ lastCall.op \in {"constructor", "updateMap"}
    /\ lastCall.message # Null
    /\ i \in 1..Len(Val(lastCall.message).data)
    /\ Val(lastCall.message).data[i] # v
    /\ LET message == Val(lastCall.message)
           data == [message.data EXCEPT ![i] = v]
       IN  /\ mapInternalData' = Some(data)
           /\ lastCall' = [op |-> "mutate", branch |-> "none", outcome |-> "ok",
                           message |-> Some([message EXCEPT !.data = data]),
                           repeated |-> FALSE]
    /\ nCalls' = nCalls + 1
    /\ prevCall' = Digest(lastCall)
    /\ UNCHANGED <<fixedVars, mapImageData, mapOrigin, mapWidth, mapHeight,
                   texture, materialMap, geometry, position, scale,
                   quaternion, plane, disposed, created, nAlloc>>

(* grids of one row at the first origin position *)
AliasMessages ==
    {m \in GridMessages :
        m.info.height = 1 /\ m.info.origin.position.x = 0}

NextAlias ==
    \/ \E message \in AliasMessages : Construct(message)
    \/ \E message \in AliasMessages : updateMap(message)
    \/ \E i \in 1..MaxWidth, v \in Values : mutateData(i, v)

SpecAlias == Init /\ [][NextAlias]_vars

(***************************************************************************)
(* OccupancyGridClient.prototype.processMessage (src/unnamed/part_001,     *)
(* lines 146-202; OccupancyGridClientNav.prototype.processMessage, lines   *)
(* 406-463, has the same structure).  With a current grid the message goes *)
(* to updateMap while the full-map topic has a subscribeId; without one a  *)
(* new grid is constructed from the message and becomes the current grid.  *)
(* Then 'change' is emitted and, unless continuous, unsubscribe() is       *)
(* called.  An exception of the constructor or of updateMap leaves the     *)
(* handler at once: nothing is emitted, nothing unsubscribed, and after a  *)
(* failed constructor the client still has no grid, the next message       *)
(* constructs a new object.                                                *)
(***************************************************************************)
(* new ROS3D.OccupancyGrid(message) throws when its updateMap does *)
ConstructorThrows(message) ==
    buildImageData(NewUint8Array(message.info.width * message.info.height * 4),
                   message.data, message.info.width, message.info.height,
                   0, 0).threw

(* unsubscribe(), lines 50-63 *)
unsubscribe(c) ==
    [c EXCEPT !.subscribeId = Null, !.updatesSubscribeId = Null]

(* lines 195-201: this.emit('change'), then unsubscribe() unless continuous *)
EmitChange(c) ==
    LET emitted == [c EXCEPT !.changes = @ + 1]
    IN  IF c.continuous THEN emitted ELSE unsubscribe(emitted)

processMessage(message) ==
    /\ nCalls < MaxCalls
    /\ nCalls' = nCalls + 1
    /\ UNCHANGED <<opacity, colorMap, optionsOpacity, paletteValue,
                   paletteRgba, navVars>>
    /\ IF currentGrid # Null
       THEN IF client.subscribeId # Null
            THEN /\ updateMapFrom(message, "updateMap")
                 /\ prevCall' = Digest(lastCall)
                 /\ client' = IF lastCall'.outcome = "threw" THEN client
                               ELSE EmitChange(client)
            ELSE /\ client' = EmitChange(client)
                 /\ UNCHANGED <<gridVars, nAlloc, lastCall, prevCall>>
       ELSE IF ConstructorThrows(message)
            THEN /\ client' = [client EXCEPT !.grids = @ + 1]
                 /\ UNCHANGED <<gridVars, nAlloc, lastCall, prevCall>>
            ELSE /\ updateMapFrom(message, "constructor")
                 /\ prevCall' = Digest(lastCall)
                 /\ client' = EmitChange([client EXCEPT !.grids = @ + 1])

(* a message of the '<topic>_updates' topic reaches its callback only
   while that topic is subscribed, lines 80-91 *)
deliverPartialUpdate(message) ==
    /\ client.updatesSubscribeId # Null
    /\ processMessage_mapPartialUpdate(message)

(* the client hands its own opacity, options.opacity || 0.7 (line 37), to
   the grid it constructs *)
InitClient ==
    /\ \E option \in OpacityOptions : Blank(Some(OpacityOf(option)))
    /\ paletteValue = 0
    /\ paletteRgba = Null
    /\ \E continuous \in BOOLEAN : client = OccupancyGridClient(continuous)
    /\ NoNavigation

NextClient ==
    \/ \E message \in GridMessages : processMessage(message)
    \/ \E message \in PartialMessages : deliverPartialUpdate(message)

SpecClient == InitClient /\ [][NextClient]_vars

(***************************************************************************)
(* Mouse events as ROS3D.MouseHandler hands them to a navigator.  type is  *)
(* event3D.type, domType, button and buttons are those of                  *)
(* event3D.domEvent, point is event3D.intersection.point, and hit is what  *)
(* a new raycast from the mouse position onto the grid finds: a point, or  *)
(* Null when the ray misses the grid (intersectObject returns []).  Every  *)
(* type comes with the values of the fields its case of the handlers       *)
(* reads; the fields it does not read have one value.                      *)
(***************************************************************************)
NavPoints == {[x |-> 0, y |-> 0], [x |-> 1, y |-> 0], [x |-> 0, y |-> 1]}

EventTypes ==
    {"mouseover", "mousedown", "mouseup", "mouseout", "mousemove", "click"}

Hits == {Null} \cup {Some(q) : q \in NavPoints}

MouseEvents ==
    {e \in [type : EventTypes,
            domType : EventTypes \ {"mouseover", "mouseout"},
            button : {0, 2}, buttons : {0, 1, 3},
            point : NavPoints, hit : Hits] :
        /\ e.type = "mouseover" => e.domType \in {"mousedown", "mousemove"}
        /\ e.type = "mouseout" => e.domType = "mousemove"
        /\ e.type \notin {"mouseover", "mouseout"} => e.domType = e.type
        /\ e.type # "mousedown" =>
              e.buttons = 0 /\ e.point = [x |-> 0, y |-> 0]
        /\ e.type \in {"mouseover", "mousedown", "click"} => e.hit = Null
        /\ e.type \in {"mousemove", "click"} => e.button = 0}

(* new ROSLIB.Vector3({x: poi.x, y: poi.y, z: 0}) *)
Vector3(poi) == [x |-> poi.x, y |-> poi.y, z |-> 0]

(* Math.atan2(a, b) in units of pi/4, for a and b in -1..1 *)
Atan2(a, b) ==
    IF a = 0 THEN (IF b >= 0 THEN 0 ELSE 4)
    ELSE IF a > 0 THEN (IF b > 0 THEN 1 ELSE IF b = 0 THEN 2 ELSE 3)
    ELSE (IF b > 0 THEN -1 ELSE IF b = 0 THEN -2 ELSE -3)

(* Navigator.prototype.calculateOrientation, lines 132-153: the quaternion
   {x:0, y:0, z:sin(-theta/2), w:cos(-theta/2)}, kept as theta in units
   of pi/4 *)
calculateOrientation(p1, p2) ==
    LET xDelta == p2.x - p1.x
        yDelta == p2.y - p1.y
        thetaRadians == Atan2(xDelta, yDelta)
    IN  [theta |-> IF thetaRadians >= 0 /\ thetaRadians <= 4
                   THEN thetaRadians + 6
                   ELSE thetaRadians - 2]

(* calculateCurrentPOI, lines 276-295: 'if (newIntersections)' holds for
   every array, also the empty one, so the point of the first intersection
   is read in either case; with no intersection newIntersections[0] is
   undefined and reading its point throws (Null here) *)
calculateCurrentPOI(event3D) == event3D.hit

(* what the frame of a navigator call leaves alone *)
gridSide ==
    <<opacity, colorMap, optionsOpacity, paletteValue, paletteRgba, client,
      gridVars, nAlloc, lastCall, prevCall>>

(***************************************************************************)
(* Navigator.prototype.mouseEventHandlerUnbound, lines 156-274, with       *)
(* sendGoal (lines 63-108) and updateGoalMarker (lines 111-128).           *)
(***************************************************************************)
Emitted(event, seen, result) ==
    [event |-> event, seen |-> seen, result |-> result]

(* variant: the handler does not look at isActive *)
NavigatorIsActive_Always == TRUE

NavigatorIsActive == navigator.isActive

(* lines 201-253: mouseDown is reset first; without a new intersection the
   handler throws there; otherwise the pose at the mouse-down point is sent
   as a goal, shown by the goal marker, and mouseDownPos is reset *)
NavigatorMouseUp(event3D) ==
    LET poi == calculateCurrentPOI(event3D)
        down == [navigator EXCEPT !.mouseDown = FALSE]
    IN  IF poi = Null
        THEN [nav |-> down, call |-> [NoCall EXCEPT !.threw = TRUE]]
        ELSE LET mouseUpPos == Vector3(Val(poi))
                 pose == [position |-> Val(navigator.mouseDownPos),
                          orientation |->
                              calculateOrientation(Val(navigator.mouseDownPos),
                                                   mouseUpPos)]
             IN  [nav |-> [down EXCEPT
                              !.currentGoal = Some(pose),
                              !.goalMarker = Some([origin |-> pose.position,
                                                   rot |-> pose.orientation,
                                                   color |-> "color"]),
                              !.mouseDownPos = Null],
                  call |-> [NoCall EXCEPT
                              !.sent = <<pose>>,
                              !.emitted = <<Emitted("change", <<>>, <<>>)>>,
                              !.stopped = TRUE]]

(* lines 256-268: the goal marker follows the drag *)
NavigatorMouseMove(event3D) ==
    LET poi == calculateCurrentPOI(event3D)
    IN  IF poi = Null
        THEN [nav |-> navigator, call |-> [NoCall EXCEPT !.threw = TRUE]]
        ELSE [nav |-> [navigator EXCEPT
                          !.goalMarker =
                              Some([origin |-> Val(navigator.mouseDownPos),
                                    rot |-> calculateOrientation(
                                                Val(navigator.mouseDownPos),
                                                Vector3(Val(poi))),
                                    color |-> "intermediateColor"])],
              call |-> [NoCall EXCEPT
                          !.emitted = <<Emitted("change", <<>>, <<>>)>>]]

NavigatorHandled(event3D) ==
    LET ignored == [nav |-> navigator, call |-> NoCall]
    IN  IF ~NavigatorIsActive THEN ignored
        ELSE CASE event3D.type = "mouseover" ->
                    [nav |-> navigator,
                     call |-> [NoCall EXCEPT
                                 !.stopped = (event3D.domType = "mousedown"
                                              /\ event3D.button = 0)]]
               [] event3D.type = "mousedown" ->
                    IF event3D.button = 0 /\ event3D.buttons = 1
                    THEN [nav |-> [navigator EXCEPT
                                     !.mouseDownPos =
                                         Some(Vector3(event3D.point)),
                                     !.mouseDown = TRUE],
                          call |-> [NoCall EXCEPT !.stopped = TRUE]]
                    ELSE ignored
               [] event3D.type \in {"mouseout", "mouseup"} ->
                    IF navigator.mouseDown /\ event3D.button = 0
                    THEN NavigatorMouseUp(event3D)
                    ELSE ignored
               [] event3D.type = "mousemove" ->
                    IF navigator.mouseDown
                    THEN NavigatorMouseMove(event3D)
                    ELSE ignored
               [] OTHER -> ignored

mouseEventHandler(event3D) ==
    /\ nCalls < MaxNavCalls
    /\ nCalls' = nCalls + 1
    /\ navigator' = NavigatorHandled(event3D).nav
    /\ navCall' = [NavigatorHandled(event3D).call EXCEPT
                      !.target = "Navigator", !.op = event3D.type,
                      !.event = Some(event3D)]
    /\ UNCHANGED <<navigatorMW, gridSide>>

(* activate, deactivate and toggleActivation, lines 298-309 *)
NavigatorCalled(op, isActive) ==
    /\ nCalls < MaxNavCalls
    /\ nCalls' = nCalls + 1
    /\ navigator' = [navigator EXCEPT !.isActive = isActive]
    /\ navCall' = [NoCall EXCEPT !.target = "Navigator", !.op = op]
    /\ UNCHANGED <<navigatorMW, gridSide>>

activate == NavigatorCalled("activate", TRUE)

deactivate == NavigatorCalled("deactivate", FALSE)

toggleActivation == NavigatorCalled("toggleActivation", ~navigator.isActive)

(***************************************************************************)
(* Navigator_MW: the goal list and its markers.  goalList is a Proxy of    *)
(* the array of poses; its handler (arrayChangeHandler.get, lines 68-238)  *)
(* wraps push and splice: the wrapper first brings nodeMarkerList and the  *)
(* markers in the scene up to date, then emits 'navigationUpd' on          *)
(* rootObject, and only then applies the array method to the list (line    *)
(* 232).  Array indices are 0-based as in the source.                      *)
(***************************************************************************)
(* list[i]: undefined (Null) outside the list *)
ListAt(list, i) ==
    IF 0 <= i /\ i < Len(list) THEN Some(list[i + 1]) ELSE Null

(* list.at(i): a negative i counts from the end *)
ListAtIndex(list, i) ==
    IF i < 0 THEN Len(list) + i ELSE i

Min(a, b) == IF a < b THEN a ELSE b

Max(a, b) == IF a > b THEN a ELSE b

(* Array.prototype.splice(start, deleteCount, ...items) *)
SpliceStart(list, start) ==
    IF start < 0 THEN Max(Len(list) + start, 0) ELSE Min(start, Len(list))

SpliceCount(list, start, deleteCount) ==
    Min(Max(deleteCount, 0), Len(list) - SpliceStart(list, start))

SpliceRemoved(list, start, deleteCount) ==
    SubSeq(list, SpliceStart(list, start) + 1,
           SpliceStart(list, start) + SpliceCount(list, start, deleteCount))

Splice(list, start, deleteCount, items) ==
    SubSeq(list, 1, SpliceStart(list, start))
    \o items
    \o SubSeq(list, SpliceStart(list, start)
                     + SpliceCount(list, start, deleteCount) + 1, Len(list))

(* NodePoseConnector (src/src/models/NodePoseConnector.js, lines 52-61)
   has a geometry only when its end points are at least 0.54 apart *)
ConnectorHasGeometry(newPos, oldPos) == newPos # oldPos

(* addPoseMarker(pos, ori), lines 296-308: a NodePose at pos, turned by
   ori *)
NodePose(id, pos, ori) ==
    [id |-> id, kind |-> "NodePose", origin |-> pos, rot |-> ori]

NodePoseConnector(id) == [id |-> id, kind |-> "NodePoseConnector"]

(* this.remove(marker) for the markers of one entry of nodeMarkerList *)
WithoutEntry(children, entry) ==
    {c \in children :
        c.id # entry.node /\ (entry.conn0 = Null \/ c.id # Val(entry.conn0))}

(* addConnectorMarker(newPos, oldPos), lines 323-341, on mw: the marker is
   added and returned only when it has a geometry *)
WithConnector(mw, newPos, oldPos) ==
    IF ConnectorHasGeometry(newPos, oldPos)
    THEN [mw |-> [mw EXCEPT
                    !.markers = @ + 1,
                    !.children = @ \cup {NodePoseConnector(mw.markers + 1)}],
          conn |-> Some(mw.markers + 1)]
    ELSE [mw |-> mw, conn |-> Null]

(* lines 82-105 and 232: goalList.push(pose) *)
ProxyPush(mw, pose) ==
    LET oldROSPose == ListAt(mw.goalList, Len(mw.goalList) - 1)
        posed == [mw EXCEPT !.markers = @ + 1,
                            !.children =
                                @ \cup {NodePose(mw.markers + 1, pose.position,
                                                 pose.orientation)}]
        connected == IF oldROSPose = Null
                     THEN [mw |-> posed, conn |-> Null]
                     ELSE WithConnector(posed, pose.position,
                                        Val(oldROSPose).position)
    IN  [mw |-> [connected.mw EXCEPT
                    !.nodeMarkerList =
                        Append(@, [node |-> mw.markers + 1,
                                   conn0 |-> connected.conn]),
                    !.goalList = Append(@, pose)],
         emitted |-> <<Emitted("navigationUpd", mw.goalList,
                               Append(mw.goalList, pose))>>]

(* lines 134-141 and 173-180: the markers of the deleted entries leave the
   scene; an index outside nodeMarkerList throws inside the try *)
RECURSIVE WithoutDeleted(_, _, _, _)
WithoutDeleted(children, list, i, c) ==
    IF c <= 0 THEN children
    ELSE WithoutDeleted(
            IF ListAt(list, i) = Null THEN children
            ELSE WithoutEntry(children, Val(ListAt(list, i))),
            list, i + 1, c - 1)

(* lines 186-196: a node marker for each inserted pose, with a connector
   from the pose before it *)
RECURSIVE WithItems(_, _, _, _, _)
WithItems(mw, items, k, oldROSPose, added) ==
    IF k > Len(items)
    THEN [mw |-> mw, added |-> added, oldROSPose |-> oldROSPose]
    ELSE LET posed == [mw EXCEPT
                          !.markers = @ + 1,
                          !.children =
                              @ \cup {NodePose(mw.markers + 1,
                                               items[k].position,
                                               items[k].orientation)}]
             connected == IF oldROSPose = Null
                          THEN [mw |-> posed, conn |-> Null]
                          ELSE WithConnector(posed, items[k].position,
                                             Val(oldROSPose).position)
         IN  WithItems(connected.mw, items, k + 1, Some(items[k]),
                       Append(added, [node |-> mw.markers + 1,
                                      conn0 |-> connected.conn]))

(* lines 143-156 and 199-212: the entry after the deleted ones gets a new
   connector from the pose that now precedes it; reading the position of
   an undefined newROSPose throws inside the try, after the old connector
   was removed *)
WithNextReconnected(mw, after, oldROSPose, newROSPose) ==
    LET at == ListAtIndex(mw.nodeMarkerList, after)
        entry == ListAt(mw.nodeMarkerList, at)
    IN  IF entry = Null THEN mw
        ELSE LET removed ==
                     [mw EXCEPT !.children =
                         {c \in @ : Val(entry).conn0 = Null
                                     \/ c.id # Val(Val(entry).conn0)}]
             IN  IF oldROSPose = Null
                 THEN [removed EXCEPT !.nodeMarkerList[at + 1].conn0 = Null]
                 ELSE IF newROSPose = Null THEN removed
                 ELSE LET connected ==
                              WithConnector(removed, Val(newROSPose).position,
                                            Val(oldROSPose).position)
                      IN  [connected.mw EXCEPT
                              !.nodeMarkerList[at + 1].conn0 = connected.conn]

(* lines 106-217 and 232: goalList.splice(start, deleteCount, ...items)
   called with two or more arguments *)
ProxySplice(mw, start, deleteCount, items) ==
    LET oldROSPose == ListAt(mw.goalList, start - 1)
        newROSPose == ListAt(mw.goalList, start + deleteCount)
        cleared == [mw EXCEPT !.children =
                       WithoutDeleted(@, mw.nodeMarkerList, start,
                                      deleteCount)]
        inserted == WithItems(cleared, items, 1, oldROSPose, <<>>)
        reconnected == WithNextReconnected(inserted.mw, start + deleteCount,
                                           inserted.oldROSPose, newROSPose)
        result == Splice(mw.goalList, start, deleteCount, items)
    IN  [mw |-> [reconnected EXCEPT
                    !.nodeMarkerList =
                        Splice(@, start, deleteCount, inserted.added),
                    !.goalList = result],
         removed |-> SpliceRemoved(mw.goalList, start, deleteCount),
         emitted |-> <<Emitted("navigationUpd", mw.goalList, result)>>]

(* a call of a method of the Navigator_MW: its effect and its frame *)
NavigatorMWCalled(op, mw, emitted) ==
    /\ nCalls < MaxNavCalls
    /\ nCalls' = nCalls + 1
    /\ navigatorMW' = mw
    /\ navCall' = [NoCall EXCEPT !.target = "Navigator_MW", !.op = op,
                                 !.emitted = emitted]
    /\ UNCHANGED <<navigator, gridSide>>

(* lines 364-367 *)
pushToGoalList(pose) ==
    /\ Len(navigatorMW.goalList) < MaxGoals
    /\ NavigatorMWCalled("pushToGoalList", ProxyPush(navigatorMW, pose).mw,
                         ProxyPush(navigatorMW, pose).emitted)

(* 'start || 0' of the wrapper (lines 123, 162) and the conversion of
   Array.prototype.splice: an undefined start is 0 *)
OrZero(start) == IF start = Null THEN 0 ELSE Val(start)

(* lines 370-373: index_no is a number or undefined *)
deletePose(index_no) ==
    LET spliced == ProxySplice(navigatorMW, OrZero(index_no), 1, <<>>)
    IN  NavigatorMWCalled("deletePose", spliced.mw, spliced.emitted)

(* lines 218-228 and 232: goalList.pop().  The last entry leaves
   nodeMarkerList; 'for (var marker in Object.values(tempNodeObj))' runs
   over the keys "0" and "1" of the array of its markers, and
   that.remove("0") removes no child.  On an empty list Object.values throws
   inside the try *)
(* variant: the wrapper of pop leaves nodeMarkerList alone *)
ProxyPop_KeepsEntry(mw) ==
    [mw |-> [mw EXCEPT !.goalList = SubSeq(@, 1, Max(Len(@) - 1, 0))],
     emitted |-> <<Emitted("navigationUpd", mw.goalList,
                           SubSeq(mw.goalList, 1,
                                  Max(Len(mw.goalList) - 1, 0)))>>]

ProxyPop(mw) ==
    [mw |-> [mw EXCEPT
                !.nodeMarkerList = SubSeq(@, 1, Max(Len(@) - 1, 0)),
                !.goalList = SubSeq(@, 1, Max(Len(@) - 1, 0))],
     emitted |-> <<Emitted("navigationUpd", mw.goalList,
                           SubSeq(mw.goalList, 1,
                                  Max(Len(mw.goalList) - 1, 0)))>>]

(* goalList.pop() called on the public goal list of the navigator *)
goalListPop ==
    NavigatorMWCalled("goalList.pop", ProxyPop(navigatorMW).mw,
                      ProxyPop(navigatorMW).emitted)

(* lines 405-409 *)
clearGoalList ==
    LET spliced == ProxySplice(navigatorMW, 0, Len(navigatorMW.goalList),
                               <<>>)
    IN  NavigatorMWCalled("clearGoalList", spliced.mw, spliced.emitted)

(* lines 577-585 *)
moveNodeFromIndexTo(fromIndex, toIndex, count) ==
    IF /\ fromIndex >= 0 /\ fromIndex < Len(navigatorMW.goalList)
       /\ toIndex >= 0 /\ toIndex < Len(navigatorMW.goalList)
       /\ count >= 0
    THEN LET taken == ProxySplice(navigatorMW, fromIndex, count, <<>>)
             put == ProxySplice(taken.mw, toIndex, 0, taken.removed)
         IN  NavigatorMWCalled("moveNodeFromIndexTo", put.mw,
                               taken.emitted \o put.emitted)
    ELSE NavigatorMWCalled("moveNodeFromIndexTo", navigatorMW, <<>>)

(***************************************************************************)
(* Navigator_MW.prototype.mouseEventHandlerUnbound, lines 412-517.         *)
(***************************************************************************)
(* Navigator_MW.prototype.calculateOrientation, lines 376-402: as the
   Navigator's, but the default quaternion when both points are the same *)
calculateOrientationMW(p1, p2) ==
    IF p2.x - p1.x = 0 /\ p2.y - p1.y = 0 THEN Identity
    ELSE calculateOrientation(p1, p2)

(* lines 439-457 *)
NavigatorMWMouseDown(event3D) ==
    IF event3D.button = 0 /\ event3D.buttons = 1
    THEN [mw |-> [navigatorMW EXCEPT
                    !.mouseDown = TRUE,
                    !.mouseDownPos = Some(Vector3(event3D.point)),
                    !.markers = @ + 1,
                    !.children =
                        @ \cup {NodePose(navigatorMW.markers + 1,
                                         Vector3(event3D.point), Identity)},
                    !.latestMarker = Some(navigatorMW.markers + 1)],
          call |-> [NoCall EXCEPT !.stopped = TRUE]]
    ELSE [mw |-> navigatorMW, call |-> [NoCall EXCEPT !.exited = TRUE]]

(* lines 461-492 *)
NavigatorMWMouseUp(event3D) ==
    LET poi == calculateCurrentPOI(event3D)
        down == [navigatorMW EXCEPT !.mouseDown = FALSE]
    IN  IF poi = Null
        THEN [mw |-> down, call |-> [NoCall EXCEPT !.threw = TRUE]]
        ELSE LET updatedROSPose ==
                     [position |-> Val(navigatorMW.mouseDownPos),
                      orientation |->
                          calculateOrientationMW(Val(navigatorMW.mouseDownPos),
                                                 Vector3(Val(poi)))]
                 removed == [down EXCEPT
                               !.children =
                                   {c \in @ : navigatorMW.latestMarker = Null
                                       \/ c.id # Val(navigatorMW.latestMarker)},
                               !.latestMarker = Null]
                 pushed == ProxyPush(removed, updatedROSPose)
             IN  [mw |-> [pushed.mw EXCEPT !.mouseDownPos = Null],
                  call |-> [NoCall EXCEPT !.emitted = pushed.emitted,
                                          !.stopped = TRUE]]

(* lines 495-510, with updateMarkerOri, lines 311-320 *)
NavigatorMWMouseMove(event3D) ==
    LET poi == calculateCurrentPOI(event3D)
    IN  IF poi = Null
        THEN [mw |-> navigatorMW, call |-> [NoCall EXCEPT !.threw = TRUE]]
        ELSE [mw |-> navigatorMW,
              call |-> [NoCall EXCEPT
                          !.emitted =
                              IF navigatorMW.latestMarker = Null THEN <<>>
                              ELSE <<Emitted("change", <<>>, <<>>)>>,
                          !.stopped = TRUE]]

NavigatorMWHandled(event3D) ==
    LET ignored == [mw |-> navigatorMW, call |-> NoCall]
    IN  IF ~navigatorMW.isActive THEN ignored
        ELSE CASE event3D.type = "mouseover" ->
                    [mw |-> navigatorMW,
                     call |-> [NoCall EXCEPT
                                 !.stopped = (event3D.domType = "mousedown"
                                              /\ event3D.button = 0)]]
               [] event3D.type = "mousedown" -> NavigatorMWMouseDown(event3D)
               [] event3D.type \in {"mouseout", "mouseup"} ->
                    IF navigatorMW.mouseDown /\ event3D.button = 0
                    THEN NavigatorMWMouseUp(event3D)
                    ELSE ignored
               [] event3D.type = "mousemove" ->
                    IF navigatorMW.mouseDown
                    THEN NavigatorMWMouseMove(event3D)
                    ELSE ignored
               [] OTHER ->
                    [mw |-> navigatorMW,
                     call |-> [NoCall EXCEPT !.exited = TRUE]]

mouseEventHandlerMW(event3D) ==
    /\ nCalls < MaxNavCalls
    /\ nCalls' = nCalls + 1
    /\ navigatorMW' = NavigatorMWHandled(event3D).mw
    /\ Len(navigatorMW'.goalList) <= MaxGoals
    /\ navCall' = [NavigatorMWHandled(event3D).call EXCEPT
                      !.target = "Navigator_MW", !.op = event3D.type,
                      !.event = Some(event3D)]
    /\ UNCHANGED <<navigator, gridSide>>

(* activate, deactivate and toggleActivation, lines 588-605 *)
activateMW ==
    NavigatorMWCalled("activate", [navigatorMW EXCEPT !.isActive = TRUE],
                      <<>>)

deactivateMW ==
    NavigatorMWCalled("deactivate", [navigatorMW EXCEPT !.isActive = FALSE],
                      <<>>)

toggleActivationMW ==
    NavigatorMWCalled("toggleActivation",
                      [navigatorMW EXCEPT !.isActive = ~@], <<>>)

(***************************************************************************)
(* The two navigators under mouse events, activation calls and goal-list   *)
(* calls.  No grid message is handled.                                     *)
(***************************************************************************)
NavPoses ==
    {[position |-> Vector3(q), orientation |-> Identity] :
        q \in {[x |-> 0, y |-> 0], [x |-> 1, y |-> 0]}}

InitNav ==
    /\ Blank(Null)
    /\ paletteValue = 0
    /\ paletteRgba = Null
    /\ client = OccupancyGridClient(TRUE)
    /\ \E navigatorInitState \in BOOLEAN :
          navigator = Navigator(navigatorInitState)
    /\ \E navInitState \in BOOLEAN : navigatorMW = Navigator_MW(navInitState)
    /\ navCall = NoCall

NextNav ==
    \/ \E event3D \in MouseEvents : mouseEventHandler(event3D)
    \/ activate
    \/ deactivate
    \/ toggleActivation
    \/ \E event3D \in MouseEvents : mouseEventHandlerMW(event3D)
    \/ activateMW
    \/ deactivateMW
    \/ toggleActivationMW
    \/ \E pose \in NavPoses : pushToGoalList(pose)
    \/ \E index_no \in {Null} \cup {Some(i) : i \in -MaxGoals..MaxGoals} :
          deletePose(index_no)
    \/ clearGoalList
    \/ goalListPop
    \/ \E fromIndex, toIndex \in 0..MaxGoals, count \in 0..1 :
          moveNodeFromIndexTo(fromIndex, toIndex, count)

SpecNav == InitNav /\ [][NextNav]_vars

(***************************************************************************)
(* Vocabulary of the properties.                                           *)
(***************************************************************************)
(* the pixel of cell index p (0-based) of a byte buffer, Null past its end *)
PixelAt(bytes, p) ==
    IF 4 * p + 4 <= Len(bytes)
    THEN Some(<<bytes[4 * p + 1], bytes[4 * p + 2], bytes[4 * p + 3],
                bytes[4 * p + 4]>>)
    ELSE Null

(* the pixel that the colour table gives a cell value, Null without entry *)
TablePixel(value) ==
    IF value \in DOMAIN colorMap
    THEN Some(<<ToUint8(colorMap[value][1]), ToUint8(colorMap[value][2]),
                ToUint8(colorMap[value][3]), ToUint8(colorMap[value][4])>>)
    ELSE Null

(* the table's alpha is the palette's alpha times the configured opacity *)
TableAlphaScaled(value) ==
    /\ value \in DOMAIN colorMap
    /\ RatEq(colorMap[value][4],
             RatMul(costmapPalleteTransform(value)[4], opacity))

FullUpdateCompleted ==
    /\ lastCall.op \in {"constructor", "updateMap"}
    /\ lastCall.outcome = "ok"

PartialUpdateCompleted ==
    /\ lastCall.op = "updatePartialMap"
    /\ lastCall.outcome = "ok"

(* the pixel buffer holds exactly the table pixels of the cells data *)
PixelsOf(bytes, data) ==
    /\ Len(bytes) = Len(data) * 4
    /\ \A i \in 1..Len(data) :
        /\ TableAlphaScaled(data[i])
        /\ PixelAt(bytes, i - 1) = TablePixel(data[i])

(***************************************************************************)
(* C1: after every full update that completes, on either branch, the pixel *)
(* buffer has length mapWidth*mapHeight*4 and the 4 bytes of every cell i  *)
(* are the colour-table entry of the message's data[i], whose alpha is the *)
(* palette alpha multiplied by the opacity.                                *)
(***************************************************************************)
C1_FullUpdatePixels ==
    FullUpdateCompleted =>
        /\ mapImageData # Null
        /\ Len(Val(mapImageData).bytes) = Val(mapWidth) * Val(mapHeight) * 4
        /\ PixelsOf(Val(mapImageData).bytes, Val(lastCall.message).data)

(***************************************************************************)
(* C2: after a successful partial update with rectangle (x, y, pw, ph) on  *)
(* a grid of width W, the pixel at byte offset (c + r*W)*4 of every cell   *)
(* (c, r) of the rectangle is the colour-table entry of                    *)
(* patchData[(c-x) + (r-y)*pw], and every pixel outside the rectangle is   *)
(* unchanged.                                                              *)
(***************************************************************************)
InRectangle(m, c, r) ==
    /\ m.x <= c /\ c < m.x + m.width
    /\ m.y <= r /\ r < m.y + m.height

PatchedPixel(m, old, c, r, W) ==
    IF InRectangle(m, c, r)
    THEN TablePixel(m.data[(c - m.x) + (r - m.y) * m.width + 1])
    ELSE PixelAt(old, c + r * W)

C2_PatchWritesRectangle ==
    [][(PartialUpdateCompleted)' =>
        LET m == Val(lastCall'.message)
            W == Val(mapWidth)
            H == Val(mapHeight)
        IN  \A c \in 0..(W - 1), r \in 0..(H - 1) :
                PixelAt(Val(mapImageData').bytes, c + r * W)
                    = PatchedPixel(m, Val(mapImageData).bytes, c, r, W)]_vars

(***************************************************************************)
(* C3: a partial update whose rectangle has x < 0, y < 0,                  *)
(* x + patchWidth > mapWidth or y + patchHeight > mapHeight is rejected:   *)
(* it changes neither the pixel buffer, the raw cells, the dimensions, the *)
(* origin nor the texture's needsUpdate flag.                              *)
(***************************************************************************)
RectangleOutside(m) ==
    \/ m.x < 0
    \/ m.y < 0
    \/ m.x + m.width > Val(mapWidth)
    \/ m.y + m.height > Val(mapHeight)

C3_OutOfBoundsPatchRejected ==
    [][(lastCall'.op = "updatePartialMap"
            /\ RectangleOutside(Val(lastCall'.message))) =>
        /\ lastCall'.outcome = "rejected"
        /\ UNCHANGED <<mapImageData, mapInternalData, mapWidth, mapHeight,
                       mapOrigin>>
        /\ texture'.needsUpdate = texture.needsUpdate]_vars

(* a patch one cell too wide was rejected while the flag was clear *)
C3_Witness ==
    /\ lastCall.op = "updatePartialMap"
    /\ lastCall.outcome = "rejected"
    /\ Val(lastCall.message).x >= 0
    /\ Val(lastCall.message).y >= 0
    /\ Val(lastCall.message).x + Val(lastCall.message).width > Val(mapWidth)
    /\ ~texture.needsUpdate

(***************************************************************************)
(* C4: applying the same full grid message twice in a row takes the        *)
(* full-rebuild branch both times; each application disposes the current   *)
(* texture and installs a new geometry, a newly allocated pixel buffer and *)
(* a new texture; the in-place branch is not taken.  (Stated for           *)
(* applications that return normally.)                                     *)
(***************************************************************************)
SecondApplication ==
    /\ lastCall.op \in {"constructor", "updateMap"}
    /\ lastCall'.op = "updateMap"
    /\ lastCall'.message = lastCall.message

C4_SameMessageTwiceRebuildsTwice ==
    [][(SecondApplication /\ lastCall.outcome = "ok"
            /\ lastCall'.outcome = "ok") =>
        /\ lastCall.branch = "rebuild"
        /\ lastCall'.branch = "rebuild"
        /\ texture.id \in disposed'
        /\ geometry'.id # geometry.id
        /\ Val(mapImageData').id # Val(mapImageData).id
        /\ texture'.id # texture.id]_vars

(***************************************************************************)
(* C4 as amended: the second of two consecutive applications of the same   *)
(* full grid message always takes the full-rebuild branch: it disposes the *)
(* current texture and installs a new geometry and, when it returns        *)
(* normally, a newly allocated pixel buffer and a new texture.  (The first *)
(* application takes the branch that the state before it selects.)         *)
(***************************************************************************)
C4_SecondApplicationRebuilds ==
    [][SecondApplication =>
        /\ lastCall'.branch = "rebuild"
        /\ texture.id \in disposed'
        /\ geometry'.id # geometry.id
        /\ lastCall'.outcome = "ok" =>
            /\ mapImageData = Null \/ Val(mapImageData').id # Val(mapImageData).id
            /\ texture'.id # texture.id
            /\ texture'.image = Val(mapImageData').id
            /\ materialMap' = texture'.id]_vars

(* the same message was applied a second time and rebuilt the grid, after a
   first application that went in place *)
C4_Witness ==
    /\ lastCall.op = "updateMap"
    /\ lastCall.repeated
    /\ lastCall.branch = "rebuild"
    /\ lastCall.outcome = "ok"
    /\ prevCall.op = "updateMap"
    /\ prevCall.branch = "inplace"

(***************************************************************************)
(* C5: a full update whose origin position and dimensions equal the        *)
(* current ones and whose data differs from the stored raw cells takes the *)
(* in-place path: geometry, mesh position, scale, quaternion, the texture  *)
(* object and the pixel buffer object are unchanged, every pixel is        *)
(* rewritten from the new data and texture.needsUpdate is set to true.     *)
(***************************************************************************)
SamePositionAndSize(m) ==
    /\ mapOrigin # Null
    /\ Val(mapOrigin).position = m.info.origin.position
    /\ mapWidth = Some(m.info.width)
    /\ mapHeight = Some(m.info.height)

C5_SameGeometryNewDataInPlace ==
    [][(lastCall'.op = "updateMap"
            /\ SamePositionAndSize(Val(lastCall'.message))
            /\ mapInternalData # Some(Val(lastCall'.message).data)) =>
        /\ UNCHANGED <<geometry, position, scale, quaternion>>
        /\ texture'.id = texture.id
        /\ mapImageData # Null
        /\ Val(mapImageData').id = Val(mapImageData).id
        /\ Len(Val(mapImageData').bytes) = Len(Val(mapImageData).bytes)
        /\ PixelsOf(Val(mapImageData').bytes, Val(lastCall'.message).data)
        /\ texture'.needsUpdate]_vars

(***************************************************************************)
(* C6: a full update whose width, height or origin position differs from   *)
(* the current snapshot takes the full-rebuild path whatever its data:     *)
(* mapOrigin, mapWidth and mapHeight are set to the new values, a new      *)
(* pixel buffer of the new size is allocated and filled, and geometry and  *)
(* texture are replaced.                                                   *)
(***************************************************************************)
C6_NewGeometryRebuilds ==
    [][(lastCall'.op = "updateMap"
            /\ ~SamePositionAndSize(Val(lastCall'.message))) =>
        LET m == Val(lastCall'.message)
        IN  /\ mapOrigin' = Some(m.info.origin)
            /\ mapWidth' = Some(m.info.width)
            /\ mapHeight' = Some(m.info.height)
            /\ mapImageData' # Null
            /\ mapImageData = Null \/ Val(mapImageData').id # Val(mapImageData).id
            /\ Len(Val(mapImageData').bytes) = m.info.width * m.info.height * 4
            /\ PixelsOf(Val(mapImageData').bytes, m.data)
            /\ geometry'.id # geometry.id
            /\ texture'.id # texture.id]_vars

(***************************************************************************)
(* C7: a partial update with x = 0, y = 0, width = mapWidth and            *)
(* height = mapHeight is accepted and leaves the pixel buffer with exactly *)
(* the contents that a full update with the same cell data produces.       *)
(***************************************************************************)
FullExtent(m) ==
    /\ m.x = 0
    /\ m.y = 0
    /\ mapWidth = Some(m.width)
    /\ mapHeight = Some(m.height)

C7_FullExtentPatchAsFullUpdate ==
    [][(lastCall'.op = "updatePartialMap"
            /\ FullExtent(Val(lastCall'.message))) =>
        /\ lastCall'.outcome = "ok"
        /\ PixelsOf(Val(mapImageData').bytes, Val(lastCall'.message).data)]_vars

(***************************************************************************)
(* C8: after a successful partial update whose patch is smaller than the   *)
(* grid, the next full update with the same origin position and dimensions *)
(* routes into the full-rebuild path.                                      *)
(***************************************************************************)
FullUpdateAfterSmallPatch ==
    /\ lastCall.op = "updatePartialMap"
    /\ lastCall.outcome = "ok"
    /\ Len(Val(lastCall.message).data) < Val(mapWidth) * Val(mapHeight)
    /\ lastCall'.op = "updateMap"
    /\ SamePositionAndSize(Val(lastCall'.message))

C8_FullUpdateAfterPatchRebuilds ==
    [][FullUpdateAfterSmallPatch =>
        /\ lastCall'.branch = "rebuild"
        /\ geometry'.id # geometry.id
        /\ texture'.id # texture.id
        /\ Val(mapImageData').id # Val(mapImageData).id]_vars

(***************************************************************************)
(* C8 as amended: after a successful partial update whose patch is smaller *)
(* than the grid, the next full update with the same origin position and   *)
(* dimensions routes into the in-place path (the stored raw cells are the  *)
(* patch, so the data compare as different): geometry and texture objects  *)
(* are kept and the pixel buffer is not reallocated.                       *)
(***************************************************************************)
C8_FullUpdateAfterPatchInPlace ==
    [][FullUpdateAfterSmallPatch =>
        /\ lastCall'.branch = "inplace"
        /\ geometry' = geometry
        /\ texture'.id = texture.id
        /\ Val(mapImageData').id = Val(mapImageData).id
        /\ Len(Val(mapImageData').bytes) = Len(Val(mapImageData).bytes)]_vars

(* a full update of the same geometry was applied right after a patch that
   was smaller than the grid *)
C8_Witness ==
    /\ lastCall.op = "updateMap"
    /\ lastCall.outcome = "ok"
    /\ SamePositionAndSize(Val(lastCall.message))
    /\ prevCall.op = "updatePartialMap"
    /\ prevCall.outcome = "ok"
    /\ prevCall.cells < Val(mapWidth) * Val(mapHeight)

C10_PatchReplacesRawCells ==
    [][PartialUpdateCompleted' =>
        LET m == Val(lastCall'.message)
        IN  /\ mapInternalData' = Some(m.data)
            /\ Len(Val(mapInternalData')) = m.width * m.height]_vars

(* a patch smaller than the grid was applied: the raw cells are fewer than
   the grid's cells *)
C10_Witness ==
    /\ PartialUpdateCompleted
    /\ Len(Val(mapInternalData)) < Val(mapWidth) * Val(mapHeight)
    /\ Val(mapInternalData) = Val(lastCall.message).data

(***************************************************************************)
(* C11: a partial update, accepted or rejected, never changes mapWidth,    *)
(* mapHeight, mapOrigin, the geometry object, the mesh position, scale or  *)
(* quaternion, the texture object identity, or the pixel buffer identity   *)
(* and length; an accepted one sets texture.needsUpdate to true.           *)
(***************************************************************************)
PartialUpdateStep ==
    /\ Constructed
    /\ nCalls' = nCalls + 1
    /\ lastCall'.op = "updatePartialMap"

C11_PartialUpdateFrame ==
    [][PartialUpdateStep =>
        /\ UNCHANGED <<mapWidth, mapHeight, mapOrigin, geometry, position,
                       scale, quaternion>>
        /\ texture'.id = texture.id
        /\ Val(mapImageData').id = Val(mapImageData).id
        /\ Len(Val(mapImageData').bytes) = Len(Val(mapImageData).bytes)
        /\ lastCall'.outcome # "rejected" => texture'.needsUpdate]_vars

(***************************************************************************)
(* C12: a partial update that arrives before any full update has been      *)
(* applied is rejected without mutating any state: the client's            *)
(* processMessage_mapPartialUpdate drops the patch while currentGrid is    *)
(* null, and the checks of updatePartialMap reject every patch on a grid   *)
(* whose snapshot is still null, so that mapImageData and mapInternalData  *)
(* stay null.                                                              *)
(***************************************************************************)
PatchWithoutGridStep ==
    /\ currentGrid = Null
    /\ nCalls' = nCalls + 1

C12_PatchBeforeFullUpdateDropped ==
    [][PatchWithoutGridStep =>
        /\ UNCHANGED <<gridVars, fixedVars, nAlloc>>
        /\ lastCall.op = "new" =>
            /\ mapImageData' = Null
            /\ mapInternalData' = Null
            /\ \A m \in PartialMessages : PartialRejected(m)]_vars

(* a patch was handled before the first full update and nothing was built *)
C12_Witness ==
    /\ lastCall.op = "new"
    /\ nCalls > 0
    /\ mapImageData = Null
    /\ mapInternalData = Null
    /\ mapWidth = Null

(***************************************************************************)
(* C13: for every full or partial update message whose cell values are     *)
(* signed bytes in [-128,127] and whose data length matches its stated     *)
(* dimensions, updateMap / updatePartialMap never throws: the call ends    *)
(* either in a completed state transition or in a no-op with a logged      *)
(* diagnostic.  (Every message of GridMessages and PartialMessages is such *)
(* a message.)                                                             *)
(***************************************************************************)
WellFormedMessage(m) ==
    /\ \A i \in 1..Len(m.data) : -128 <= m.data[i] /\ m.data[i] <= 127
    /\ Len(m.data) = IF "info" \in DOMAIN m
                     THEN m.info.width * m.info.height
                     ELSE m.width * m.height

C13_UpdatesNeverThrow ==
    (/\ lastCall.op \in {"updateMap", "updatePartialMap"}
     /\ WellFormedMessage(Val(lastCall.message))) =>
        lastCall.outcome \in {"ok", "rejected"}

(***************************************************************************)
(* C14: the colour lookup table built by buildColorHashMap has an entry    *)
(* for exactly the values -128..126 and none for 127; an update whose data *)
(* contains the cell value 127 fails with an error at that cell rather     *)
(* than writing a default colour for it: the call throws; when the update *)
(* writes into the current buffer over the whole grid, the pixels of that  *)
(* cell and of the cells after it keep their bytes, and the cells before   *)
(* it have been written if the buffer has the size of the data; when the   *)
(* update rebuilds, no new buffer or texture is installed.                 *)
(***************************************************************************)
UpdateStep ==
    \/ lastCall.op = "new" /\ lastCall'.op = "constructor"
    \/ /\ Constructed
       /\ nCalls' = nCalls + 1
       /\ lastCall'.op \in {"updateMap", "updatePartialMap"}

First127(data) ==
    CHOOSE i \in 1..Len(data) :
        data[i] = 127 /\ \A k \in 1..(i - 1) : data[k] # 127

SameRgba(a, b) == \A c \in 1..4 : RatEq(a[c], b[c])

PaletteBranches(v) ==
    <<[in |-> v = 0,
       rgba |-> <<Num(0), Num(0), Num(0), Num(0)>>],
      [in |-> 1 <= v /\ v <= 98,
       rgba |-> <<Num(v), Num(0), Num(255 - v), Num(255)>>],
      [in |-> v = 99,
       rgba |-> <<Num(0), Num(255), Num(255), Num(255)>>],
      [in |-> v = 100,
       rgba |-> <<Num(255), Num(0), Num(255), Num(255)>>],
      [in |-> 101 <= v /\ v <= 127,
       rgba |-> <<Num(0), Num(255), Num(0), Num(255)>>],
      [in |-> -128 <= v /\ v <= -2,
       rgba |-> <<Num(255), Frac(255 * (v + 128), 126), Num(0), Num(255)>>],
      [in |-> v = -1,
       rgba |-> <<Num(112), Num(137), Num(134), Num(255)>>]>>

C15_CostmapPalette ==
    paletteRgba # Null =>
        LET branches == PaletteBranches(paletteValue)
        IN  /\ Cardinality({b \in 1..Len(branches) : branches[b].in}) = 1
            /\ \A b \in 1..Len(branches) :
                  branches[b].in => SameRgba(Val(paletteRgba), branches[b].rgba)

(* the transform was applied to a value of the yellow shades whose green
   channel is fractional, and to the largest signed byte *)
C15_Witness ==
    /\ paletteRgba # Null
    /\ \/ paletteValue = -65 /\ RatEq(Val(paletteRgba)[2], Frac(255, 2))
       \/ paletteValue = 127

(***************************************************************************)
(* C16: the colour table is built exactly once, at construction, with each *)
(* entry's alpha multiplied once by the configured opacity; no sequence of *)
(* updateMap and updatePartialMap calls rebuilds it or changes any of its  *)
(* entries.  (The entries are compared with the palette in the state that *)
(* the constructor's table building leaves; every later step leaves the    *)
(* table and the opacity as they are.)                                     *)
(***************************************************************************)
TableEntryOf(v) ==
    /\ \A c \in 1..3 : RatEq(colorMap[v][c], costmapPalleteTransform(v)[c])
    /\ TableAlphaScaled(v)

C16_TableBuiltOnce ==
    [][/\ colorMap' = colorMap
       /\ opacity' = opacity
       /\ lastCall.op = "new" =>
            \A v \in DOMAIN colorMap : TableEntryOf(v)]_vars

(* a full update and then a partial update completed on a grid whose
   opacity is not 1 *)
C16_Witness ==
    /\ PartialUpdateCompleted
    /\ prevCall.op = "updateMap"
    /\ prevCall.outcome = "ok"
    /\ ~RatEq(opacity, Num(1))
    /\ RatEq(colorMap[100][4], RatMul(Num(255), opacity))

(***************************************************************************)
(* C17: isNewGridSameAsCur(origin, width, height) returns true iff a       *)
(* snapshot exists (mapOrigin non-null) and origin.position x, y, z and    *)
(* width and height all equal the current ones; origin orientation is not  *)
(* compared, so a full update differing from the current snapshot only in  *)
(* orientation (with different data) takes the in-place path and leaves    *)
(* the mesh quaternion unchanged.                                          *)
(***************************************************************************)
FullUpdateStep ==
    \/ lastCall.op = "new" /\ lastCall'.op = "constructor"
    \/ Constructed /\ nCalls' = nCalls + 1 /\ lastCall'.op = "updateMap"

C17_SameGridIgnoresOrientation ==
    [][FullUpdateStep =>
        LET m == Val(lastCall'.message)
            origin == m.info.origin
        IN  /\ isNewGridSameAsCur(origin, m.info.width, m.info.height)
                  <=> (/\ mapOrigin # Null
                       /\ Val(mapOrigin).position.x = origin.position.x
                       /\ Val(mapOrigin).position.y = origin.position.y
                       /\ Val(mapOrigin).position.z = origin.position.z
                       /\ mapWidth # Null /\ Val(mapWidth) = m.info.width
                       /\ mapHeight # Null /\ Val(mapHeight) = m.info.height)
            /\ (/\ SamePositionAndSize(m)
                /\ Val(mapOrigin).orientation # origin.orientation
                /\ mapInternalData # Some(m.data)) =>
                    /\ lastCall'.branch = "inplace"
                    /\ quaternion' = quaternion]_vars

(* a full update with another orientation and other data went in place: the
   mesh keeps a quaternion that is not the message's *)
C17_Witness ==
    /\ lastCall.op = "updateMap"
    /\ lastCall.branch = "inplace"
    /\ lastCall.outcome = "ok"
    /\ Val(lastCall.message).info.origin.orientation # quaternion
    /\ Val(lastCall.message).info.origin.orientation
           # Val(mapOrigin).orientation

(***************************************************************************)
(* C18: on every full rebuild the previously installed texture is disposed *)
(* before the replacement texture is installed, so after any sequence of   *)
(* updates followed by dispose() every texture the grid ever created has   *)
(* been disposed, and at any moment at most one undisposed texture is      *)
(* owned by the grid.                                                      *)
(***************************************************************************)
Undisposed == created \ disposed

C18_TexturesDisposed ==
    [][/\ (FullUpdateStep /\ lastCall'.branch = "rebuild") =>
            /\ texture.id \in disposed'
            /\ texture'.id # texture.id => texture'.id \notin disposed'
       /\ (Constructed /\ nCalls' = nCalls + 1 /\ lastCall'.op = "dispose") =>
            created' \subseteq disposed'
       /\ texture'.id \in created'
       /\ Undisposed' \subseteq {texture'.id}
       /\ Cardinality(Undisposed') <= 1]_vars

(* dispose() was called after two rebuilds: three textures were created *)
C18_Witness ==
    /\ lastCall.op = "dispose"
    /\ Cardinality(created) >= 3
    /\ created \subseteq disposed

(***************************************************************************)
(* C19: after a full rebuild the mesh pose is derived from the message:    *)
(* position.x = origin.position.x + width*resolution/2,                    *)
(* position.y = origin.position.y + height*resolution/2,                   *)
(* position.z = origin.position.z, scale.x = scale.y = resolution,         *)
(* quaternion = origin.orientation, and the geometry is a plane of         *)
(* width x height.                                                         *)
(***************************************************************************)
C19_RebuildPose ==
    [][(FullUpdateStep /\ lastCall'.branch = "rebuild") =>
        LET info == Val(lastCall'.message).info
            origin == info.origin
        IN  /\ RatEq(position'.x,
                     RatAdd(Num(origin.position.x),
                            RatMul(Frac(info.width, 2), info.resolution)))
            /\ RatEq(position'.y,
                     RatAdd(Num(origin.position.y),
                            RatMul(Frac(info.height, 2), info.resolution)))
            /\ RatEq(position'.z, Num(origin.position.z))
            /\ RatEq(scale'.x, info.resolution)
            /\ RatEq(scale'.y, info.resolution)
            /\ quaternion' = origin.orientation
            /\ geometry'.width = info.width
            /\ geometry'.height = info.height
            /\ geometry'.id # geometry.id]_vars

(* a second rebuild moved the mesh to a grid at y = 1 with a resolution of
   1/10 and a turned origin *)
C19_Witness ==
    /\ lastCall.op = "updateMap"
    /\ lastCall.branch = "rebuild"
    /\ lastCall.outcome = "ok"
    /\ quaternion = HalfTurnAboutZ
    /\ RatEq(scale.x, Frac(1, 10))
    /\ RatEq(position.y, Frac(21, 20))
    /\ RatEq(position.x, Frac(1, 20))

(***************************************************************************)
(* C20: constructing an OccupancyGrid with opacity 0.0 yields a fully      *)
(* transparent grid: the stored opacity is 0 and every colour-table entry  *)
(* (hence every pixel) has alpha 0; constructing with opacity 1.0 yields   *)
(* palette alpha unchanged.                                                *)
(***************************************************************************)
C20_OpacityZeroTransparent ==
    /\ optionsOpacity = Some(Num(0)) =>
        /\ RatEq(opacity, Num(0))
        /\ \A v \in DOMAIN colorMap :
              RatEq(colorMap[v][4], Num(0)) /\ TablePixel(v)[1][4] = 0
    /\ optionsOpacity = Some(Num(1)) =>
        /\ RatEq(opacity, Num(1))
        /\ \A v \in DOMAIN colorMap :
              RatEq(colorMap[v][4], costmapPalleteTransform(v)[4])

(***************************************************************************)
(* C25: isSameMapData(data) is true exactly when a raw-cell array is       *)
(* stored, it has the length of data and every element of it equals the    *)
(* element of data at the same index; it is false when no array is stored  *)
(* and when the lengths differ.  Checked in every reachable state against  *)
(* every cell array a message can carry.                                   *)
(***************************************************************************)
CandidateData == UNION {Cells(n) : n \in 1..(MaxWidth * MaxHeight)}

StoredEquals(data) ==
    /\ mapInternalData # Null
    /\ Len(Val(mapInternalData)) = Len(data)
    /\ \A i \in 1..Len(data) : Val(mapInternalData)[i] = data[i]

C25_IsSameMapData ==
    \A data \in CandidateData :
        /\ isSameMapData(data) <=> StoredEquals(data)
        /\ mapInternalData = Null => ~isSameMapData(data)
        /\ (mapInternalData # Null
            /\ Len(Val(mapInternalData)) # Len(data)) => ~isSameMapData(data)

(* a full update stored an array that equals one candidate, differs from a
   second of the same length in one element, and is a proper prefix of a
   third *)
C25_Witness ==
    /\ FullUpdateCompleted
    /\ mapInternalData # Null
    /\ \E same, other, longer \in CandidateData :
        /\ isSameMapData(same)
        /\ Len(other) = Len(same) /\ other # same /\ ~isSameMapData(other)
        /\ Len(longer) > Len(same)
        /\ \A i \in 1..Len(same) : longer[i] = same[i]
        /\ ~isSameMapData(longer)

(***************************************************************************)
(* C26: in every reachable state of a constructed grid, also after an      *)
(* update that failed, the pixel buffer has mapWidth*mapHeight*4 bytes, so *)
(* that a failed update leaves the snapshot dimensions and the pixel       *)
(* buffer consistent with each other.                                      *)
(***************************************************************************)
C26_BufferMatchesDimensions ==
    Constructed =>
        /\ mapImageData # Null
        /\ mapWidth # Null
        /\ mapHeight # Null
        /\ Len(Val(mapImageData).bytes) = Val(mapWidth) * Val(mapHeight) * 4

(***************************************************************************)
(* C27: during an accepted partial update, every byte offset i at which    *)
(* buildImageData writes lies inside the pixel buffer (0 <= i and          *)
(* i + 4 <= its length) and every index mapI at which it reads the patch   *)
(* data satisfies 0 <= mapI < patchWidth*patchHeight.  The cells are the   *)
(* ones the double loop reaches: cell k is reached when no earlier cell    *)
(* made the loop throw.                                                    *)
(***************************************************************************)
PatchCellRow(m, k) == m.y + (k \div m.width)

PatchCellCol(m, k) == m.x + (k % m.width)

PatchCellThrows(m, k) ==
    LET mapI == CellDataIndex(PatchCellCol(m, k), PatchCellRow(m, k),
                              m.width, m.x, m.y)
        i == CellImageIndex(PatchCellCol(m, k), PatchCellRow(m, k), m.width)
    IN  \/ mapI < 0
        \/ mapI >= Len(m.data)
        \/ m.data[mapI + 1] \notin DOMAIN colorMap
        \/ i < 0
        \/ i + 4 > Len(Val(mapImageData).bytes)

PatchCellReached(m, k) == \A j \in 0..(k - 1) : ~PatchCellThrows(m, j)

AcceptedPartialStep ==
    /\ lastCall'.op = "updatePartialMap"
    /\ lastCall'.branch = "patch"
    /\ nCalls' = nCalls + 1

C27_PatchIndicesInRange ==
    [][AcceptedPartialStep =>
        LET m == Val(lastCall'.message)
        IN  \A k \in 0..(m.width * m.height - 1) :
                PatchCellReached(m, k) =>
                    LET mapI == CellDataIndex(PatchCellCol(m, k),
                                              PatchCellRow(m, k),
                                              m.width, m.x, m.y)
                        i == CellImageIndex(PatchCellCol(m, k),
                                            PatchCellRow(m, k), m.width)
                    IN  /\ 0 <= i
                        /\ i + 4 <= Len(Val(mapImageData).bytes)
                        /\ 0 <= mapI
                        /\ mapI < m.width * m.height]_vars

(***************************************************************************)
(* C21: the raw cells the grid keeps are its own: when the caller changes, *)
(* in place, an element of the data array of a message it has submitted,   *)
(* mapInternalData does not change; and when the caller then submits the   *)
(* changed array again with the same geometry, the update finds the data   *)
(* different from the stored cells and takes the in-place branch.          *)
(***************************************************************************)
CallerMutationStep == lastCall'.op = "mutate" /\ nCalls' = nCalls + 1

ResubmissionStep ==
    /\ lastCall.op = "mutate"
    /\ lastCall'.op = "updateMap"
    /\ nCalls' = nCalls + 1
    /\ lastCall'.message = lastCall.message

C21_SnapshotExclusivelyOwned ==
    [][/\ CallerMutationStep => mapInternalData' = mapInternalData
       /\ ResubmissionStep => lastCall'.branch = "inplace"]_vars

(***************************************************************************)
(* C22: the client emits 'change' whenever the grid it shows is updated:   *)
(* every message, full or partial, whose handling changes the grid's       *)
(* pixels is followed by one emission of 'change'.                         *)
(***************************************************************************)
MessageStep == nCalls' = nCalls + 1

C22_ChangeEmittedOnUpdate ==
    [][(MessageStep /\ mapImageData' # mapImageData)
        => client'.changes = client.changes + 1]_vars

(***************************************************************************)
(* C28: the client creates its grid exactly once, on the first full        *)
(* message; every later full message is applied to that same object        *)
(* through updateMap, never through a new construction, and only while     *)
(* the full-map topic still has a subscribeId.                             *)
(***************************************************************************)
FullMessageStep ==
    /\ MessageStep
    /\ \/ client' # client
       \/ lastCall'.op = "updateMap"

C28_GridCreatedOnce ==
    [][FullMessageStep =>
        /\ client'.grids = 1
        /\ client.grids = 0 => currentGrid' # Null
        /\ client.grids >= 1 =>
            /\ client'.grids = client.grids
            /\ client.subscribeId # Null => lastCall'.op = "updateMap"
            /\ client.subscribeId = Null =>
                UNCHANGED <<gridVars, lastCall>>]_vars

(***************************************************************************)
(* C29: a client whose continuous is false never subscribes to the         *)
(* '<topic>_updates' topic and unsubscribes from the full-map topic while  *)
(* it handles the first full message, so that no message delivered after   *)
(* the first one modifies the grid's pixels, raw cells or geometry.        *)
(***************************************************************************)
C29_OneShotClient ==
    [][~client.continuous =>
        /\ client'.updatesSubscribeId = Null
        /\ (FullMessageStep /\ client.grids = 0) => client'.subscribeId = Null
        /\ (MessageStep /\ client.grids >= 1) =>
            UNCHANGED <<mapImageData, mapInternalData, mapOrigin, mapWidth,
                        mapHeight, geometry>>]_vars

(***************************************************************************)
(* C30: in Navigator a goal is sent only by a 'mouseup' or 'mouseout'      *)
(* event with the left button while mouseDown is true; every such event    *)
(* (handled by an active navigator) sends exactly one goal, whose position *)
(* is the point recorded at the preceding left 'mousedown', and resets     *)
(* mouseDown to false and mouseDownPos to null; a 'mouseup' that finds     *)
(* mouseDown false sends nothing.                                          *)
(***************************************************************************)
NavigatorStep == nCalls' = nCalls + 1 /\ navCall'.target = "Navigator"

LeftRelease ==
    /\ NavigatorStep
    /\ navCall'.op \in {"mouseup", "mouseout"}
    /\ Val(navCall'.event).button = 0
    /\ navigator.isActive
    /\ navigator.mouseDown

C30_GoalSentOnRelease ==
    [][NavigatorStep =>
        /\ navCall'.sent # <<>> => LeftRelease
        /\ LeftRelease =>
            /\ Len(navCall'.sent) = 1
            /\ navCall'.sent[1].position = Val(navigator.mouseDownPos)
            /\ ~navigator'.mouseDown
            /\ navigator'.mouseDownPos = Null
        /\ (navCall'.op = "mouseup" /\ ~navigator.mouseDown) =>
            navCall'.sent = <<>>]_vars

(***************************************************************************)
(* C24: while isActive of a navigator (Navigator or Navigator_MW) is       *)
(* false, a mouse event of any type changes neither mouseDown nor          *)
(* mouseDownPos, nor the goal list, nor the markers, sends no goal and     *)
(* does not stop the propagation of the event; and isActive is changed by  *)
(* activate, deactivate and toggleActivation only.                         *)
(***************************************************************************)
MouseEventStep(target) ==
    /\ nCalls' = nCalls + 1
    /\ navCall'.target = target
    /\ navCall'.event # Null

ActivationOps == {"activate", "deactivate", "toggleActivation"}

C24_InactiveNavigatorIgnoresMouse ==
    [][/\ (MouseEventStep("Navigator") /\ ~navigator.isActive) =>
            /\ navigator' = navigator
            /\ navCall'.sent = <<>>
            /\ navCall'.emitted = <<>>
            /\ ~navCall'.stopped
       /\ (MouseEventStep("Navigator_MW") /\ ~navigatorMW.isActive) =>
            /\ navigatorMW' = navigatorMW
            /\ navCall'.sent = <<>>
            /\ navCall'.emitted = <<>>
            /\ ~navCall'.stopped
       /\ navigator'.isActive # navigator.isActive =>
            navCall'.target = "Navigator" /\ navCall'.op \in ActivationOps
       /\ navigatorMW'.isActive # navigatorMW.isActive =>
            navCall'.target = "Navigator_MW" /\ navCall'.op \in ActivationOps
      ]_vars

(* a Navigator_MW deactivated in the middle of a drag has ignored the left
   'mouseup' that would have ended the drag *)
C24_Witness ==
    /\ navCall.target = "Navigator_MW"
    /\ navCall.op = "mouseup"
    /\ Val(navCall.event).button = 0
    /\ ~navigatorMW.isActive
    /\ navigatorMW.mouseDown
    /\ navigatorMW.latestMarker # Null
    /\ navigatorMW.goalList = <<>>

(***************************************************************************)
(* C23: in Navigator_MW 'navigationUpd' tells that the goal list has       *)
(* changed: whenever the event is emitted on rootObject for a call of      *)
(* pushToGoalList, deletePose, clearGoalList or moveNodeFromIndexTo, the   *)
(* goalList a listener sees at that moment already is the result of the    *)
(* change the event is emitted for.                                        *)
(***************************************************************************)
GoalListOps ==
    {"pushToGoalList", "deletePose", "clearGoalList", "moveNodeFromIndexTo"}

GoalListStep ==
    /\ nCalls' = nCalls + 1
    /\ navCall'.target = "Navigator_MW"
    /\ navCall'.op \in GoalListOps

C23_NavigationUpdAfterChange ==
    [][GoalListStep =>
        \A k \in 1..Len(navCall'.emitted) :
            navCall'.emitted[k].event = "navigationUpd" =>
                navCall'.emitted[k].seen = navCall'.emitted[k].result]_vars


(***************************************************************************)
(* C31: calculateCurrentPOI returns the point of the first intersection of *)
(* the new raycast when the ray hits the grid object and goes back to the  *)
(* point of event3D.intersection when the new raycast has no               *)
(* intersection; the handler that calls it does not throw in that case.    *)
(* The calls are those of the mouse handlers of both navigators: a left    *)
(* 'mouseup' or 'mouseout', or a 'mousemove', while the navigator is       *)
(* active and mouseDown is true.                                           *)
(***************************************************************************)
POIEvent(event3D, isActive, mouseDown) ==
    /\ isActive
    /\ mouseDown
    /\ \/ event3D.type \in {"mouseup", "mouseout"} /\ event3D.button = 0
       \/ event3D.type = "mousemove"

POIStep ==
    \/ /\ MouseEventStep("Navigator")
       /\ POIEvent(Val(navCall'.event), navigator.isActive,
                   navigator.mouseDown)
    \/ /\ MouseEventStep("Navigator_MW")
       /\ POIEvent(Val(navCall'.event), navigatorMW.isActive,
                   navigatorMW.mouseDown)

C31_POIFallsBackToMouseDownPoint ==
    [][POIStep =>
        LET event3D == Val(navCall'.event)
        IN  /\ ~navCall'.threw
            /\ calculateCurrentPOI(event3D) =
                   IF event3D.hit # Null THEN event3D.hit
                   ELSE Some(event3D.point)]_vars


(***************************************************************************)
(* C32: in every reachable state of a Navigator, under any sequence of     *)
(* mouse events and activate, deactivate and toggleActivation calls,       *)
(* mouseDown is true exactly when mouseDownPos is not null.                *)
(***************************************************************************)
C32_MouseDownIffMouseDownPos ==
    navigator.mouseDown <=> (navigator.mouseDownPos # Null)


(***************************************************************************)
(* C33: in Navigator_MW, after any sequence of pushToGoalList, deletePose, *)
(* clearGoalList, moveNodeFromIndexTo and goalList.pop calls,              *)
(* nodeMarkerList is as long as goalList, and for every index i the node   *)
(* of nodeMarkerList[i] is the NodePose marker that was created for        *)
(* goalList[i]: a marker of the navigator at the position and with the     *)
(* orientation of that pose.                                               *)
(***************************************************************************)
MarkerCreatedFor(node, pose) ==
    \E c \in navigatorMW.children :
        /\ c.id = node
        /\ c.kind = "NodePose"
        /\ c.origin = pose.position
        /\ c.rot = pose.orientation

C33_NodeMarkerListInStep ==
    /\ Len(navigatorMW.nodeMarkerList) = Len(navigatorMW.goalList)
    /\ \A i \in 1..Len(navigatorMW.goalList) :
          MarkerCreatedFor(navigatorMW.nodeMarkerList[i].node,
                           navigatorMW.goalList[i])

(* two different poses have changed places in the goal list, and each has
   got a new marker at its new index *)
C33_Witness ==
    /\ navCall.target = "Navigator_MW"
    /\ navCall.op = "moveNodeFromIndexTo"
    /\ Len(navCall.emitted) = 2
    /\ Len(navigatorMW.goalList) = 2
    /\ navigatorMW.goalList[1] # navigatorMW.goalList[2]
    /\ navigatorMW.goalList[1] = navCall.emitted[1].seen[2]
    /\ navigatorMW.goalList[2] = navCall.emitted[1].seen[1]
    /\ navigatorMW.nodeMarkerList[1].node > 2


(***************************************************************************)
(* C34: in Navigator_MW, after any sequence of goal-list operations (push, *)
(* splice with any start, negative and undefined included, pop) and mouse  *)
(* events, the NodePose markers among the children of the navigator are    *)
(* exactly the node markers that nodeMarkerList refers to, plus the        *)
(* temporary latestMarker while a drag is in progress; a goal that was     *)
(* removed from the list leaves no marker behind in the scene.             *)
(***************************************************************************)
NodePosesInScene ==
    {c.id : c \in {m \in navigatorMW.children : m.kind = "NodePose"}}

NodesOfMarkerList ==
    {navigatorMW.nodeMarkerList[i].node :
        i \in 1..Len(navigatorMW.nodeMarkerList)}

MarkerOfDrag ==
    IF navigatorMW.mouseDown /\ navigatorMW.latestMarker # Null
    THEN {Val(navigatorMW.latestMarker)}
    ELSE {}

C34_SceneHoldsListedMarkersOnly ==
    NodePosesInScene = NodesOfMarkerList \cup MarkerOfDrag

====
